---- MODULE Spec2Model ----
(***************************************************************************)
(* Model of src-tauri/src/main.rs: the setup hook of the LISE Agent        *)
(* Desktop shell and its launcher start_python_agent, running next to the  *)
(* companion process it spawns.                                            *)
(*                                                                         *)
(* A path is the sequence of its components below the filesystem root;     *)
(* the root itself is the empty sequence.                                  *)
(***************************************************************************)
EXTENDS Naturals, Sequences, FiniteSets

\* ---------------------------------------------------------------- bounds

\* Deepest directory the running executable is placed in.
MaxDepth == 4
\* Exit codes of the companion process are 0..MaxExitCode.
MaxExitCode == 1

\* ------------------------------------------------------ program constants

\* thread::sleep(Duration::from_secs(2))
WaitSecs == 2

AgentExe == "lise-agent.exe"
DevSuffix == <<"agent", "dist", AgentExe>>
ShellExe == "lise-agent-desktop.exe"

\* ------------------------------------------------------------ environment

DirNames == {"target", "debug"}
ExitCodes == 0..MaxExitCode

RECURSIVE SeqsUpTo(_)
SeqsUpTo(n) ==
    IF n = 0 THEN {<<>>}
    ELSE LET shorter == SeqsUpTo(n - 1)
         IN  shorter \cup {Append(s, d) : s \in {t \in shorter : Len(t) = n - 1}, d \in DirNames}

\* Directories the shell's executable may be placed in.
ExeDirs == SeqsUpTo(MaxDepth)

Prefixes(s) == {SubSeq(s, 1, k) : k \in 0..Len(s)}

\* Places a built companion binary may sit, relative to an ancestor of dir.
InstallPlaces(dir) ==
    {p \o DevSuffix : p \in Prefixes(dir)} \cup {p \o <<AgentExe>> : p \in Prefixes(dir)}

\* ------------------------------------------------------------------ state

VARIABLES
    debug_assertions,  \* cfg!(debug_assertions): TRUE in a debug build
    exe,               \* what std::env::current_exe() yields when it succeeds
    files,             \* the paths that exist on the filesystem
    pc,                \* position of the main thread
    agent_path,        \* local of start_python_agent
    pathExisted,       \* outcome of agent_path.exists(): "unchecked", "yes", "no"
    child,             \* the companion process: "none", "running", "exited"
    childStatus,       \* its exit status once exited
    childExitPc,       \* where the main thread stood when the child exited
    childExitElapsed,  \* seconds slept when the child exited
    handle,            \* the Child value: "none", "held", "dropped"
    elapsed,           \* seconds slept so far in thread::sleep
    pollOutcome,       \* what child.try_wait() returned: "none", "exited", "running", "error"
    pollElapsed,       \* seconds slept when try_wait was called
    result,            \* return value of start_python_agent
    errStatus,         \* exit status carried by the "exited early" error
    setupResult,       \* return value of the setup closure
    log,               \* lines written to stdout/stderr, in order
    nExists, nSpawn, nSleep, nPoll   \* OS calls made so far

counters == <<nExists, nSpawn, nSleep, nPoll>>
env == <<debug_assertions, exe, files>>
childVars == <<child, childStatus, childExitPc, childExitElapsed>>
vars == <<debug_assertions, exe, files, pc, agent_path, pathExisted, child,
          childStatus, childExitPc, childExitElapsed, handle, elapsed, pollOutcome, pollElapsed,
          result, errStatus, setupResult, log, nExists, nSpawn, nSleep, nPoll>>

NoStatus == MaxExitCode + 1

Errors == {"ExeError", "NotFound", "SpawnError", "ExitedEarly", "StatusError"}
IsErr(r) == r \in Errors

\* ------------------------------------------------------------- log lines

LineAppStarting == "LISE Agent Desktop starting..."
LineAgentStarting == "Starting Python agent..."
LineLooking == "Looking for agent at"
LineStartedPid == "Python agent started with PID"
LineRunning == "Python agent is running"
LineSuccess == "Python agent started successfully"
LineAvailable == "Agent available at http://localhost:8000"
LineFailed == "Failed to start Python agent"
LineEnsure == "Please ensure the Python agent is built and available."

RECURSIVE Count(_, _)
Count(s, x) ==
    IF s = <<>> THEN 0
    ELSE (IF Head(s) = x THEN 1 ELSE 0) + Count(Tail(s), x)

\* --------------------------------------------------------- path operators

\* PathBuf::pop: truncate to the parent; leaves the root as it is.
Pop(p) == IF Len(p) = 0 THEN p ELSE SubSeq(p, 1, Len(p) - 1)

\* PathBuf::push of a relative component.
Push(p, c) == Append(p, c)

\* Faulty variant: one pop too few in the debug branch.
ResolveAgentPathTwoPops(e, dbg) ==
    IF dbg
    THEN Push(Push(Push(Pop(Pop(Pop(e))), "agent"), "dist"), AgentExe)
    ELSE Push(Pop(e), AgentExe)

\* Lines 12-28: the companion path derived from the executable's path.
ResolveAgentPath(e, dbg) ==
    IF dbg
    THEN Push(Push(Push(Pop(Pop(Pop(Pop(e)))), "agent"), "dist"), AgentExe)
    ELSE Push(Pop(e), AgentExe)

\* ------------------------------------------------------------------- Init

Init ==
    /\ debug_assertions \in BOOLEAN
    /\ \E dir \in ExeDirs :
          /\ exe = Append(dir, ShellExe)
          /\ files \in {{}} \cup {{p} : p \in InstallPlaces(dir)}
    /\ pc = "setup"
    /\ agent_path = <<>>
    /\ pathExisted = "unchecked"
    /\ child = "none"
    /\ childStatus = NoStatus
    /\ childExitPc = "none"
    /\ childExitElapsed = 0
    /\ handle = "none"
    /\ elapsed = 0
    /\ pollOutcome = "none"
    /\ pollElapsed = 0
    /\ result = "none"
    /\ errStatus = NoStatus
    /\ setupResult = "none"
    /\ log = <<>>
    /\ nExists = 0 /\ nSpawn = 0 /\ nSleep = 0 /\ nPoll = 0

\* ------------------------------------------------- the companion process

\* The companion process terminates of its own accord, at any moment.
ChildExits ==
    /\ child = "running"
    /\ \E code \in ExitCodes : childStatus' = code
    /\ child' = "exited"
    /\ childExitPc' = pc
    /\ childExitElapsed' = elapsed
    /\ UNCHANGED <<env, pc, agent_path, pathExisted, handle, elapsed, pollOutcome,
                   pollElapsed, result, errStatus, setupResult, log, counters>>

\* ------------------------------------------------------------- setup hook

\* Line 67, then the call on line 70.
SetupBegin ==
    /\ pc = "setup"
    /\ log' = Append(log, LineAppStarting)
    /\ pc' = "start"
    /\ UNCHANGED <<env, agent_path, pathExisted, childVars, handle, elapsed,
                   pollOutcome, pollElapsed, result, errStatus, setupResult, counters>>

\* ---------------------------------------------------- start_python_agent

\* Line 9.
StartBegin ==
    /\ pc = "start"
    /\ log' = Append(log, LineAgentStarting)
    /\ pc' = "current_exe"
    /\ UNCHANGED <<env, agent_path, pathExisted, childVars, handle, elapsed,
                   pollOutcome, pollElapsed, result, errStatus, setupResult, counters>>

\* Line 12, the `?` taken: current_exe() fails and the error is returned.
CurrentExeErr ==
    /\ pc = "current_exe"
    /\ result' = "ExeError"
    /\ pc' = "returned"
    /\ UNCHANGED <<env, agent_path, pathExisted, childVars, handle, elapsed,
                   pollOutcome, pollElapsed, errStatus, setupResult, log, counters>>

\* Lines 12-30: current_exe() succeeds, the path is derived and printed.
ResolvePath ==
    /\ pc = "current_exe"
    /\ agent_path' = ResolveAgentPath(exe, debug_assertions)
    /\ log' = Append(log, LineLooking)
    /\ pc' = "exists"
    /\ UNCHANGED <<env, pathExisted, childVars, handle, elapsed, pollOutcome,
                   pollElapsed, result, errStatus, setupResult, counters>>

\* Faulty variant: the early return of line 33 is missing.
CheckExistsIgnored ==
    /\ pc = "exists"
    /\ nExists' = nExists + 1
    /\ pathExisted' = IF agent_path \in files THEN "yes" ELSE "no"
    /\ pc' = "spawn"
    /\ UNCHANGED <<env, agent_path, childVars, handle, elapsed, pollOutcome,
                   pollElapsed, result, errStatus, setupResult, log, nSpawn, nSleep, nPoll>>

\* Lines 32-34: the existence check and its early return.
CheckExists ==
    /\ pc = "exists"
    /\ nExists' = nExists + 1
    /\ IF agent_path \in files
       THEN /\ pathExisted' = "yes"
            /\ pc' = "spawn"
            /\ UNCHANGED result
       ELSE /\ pathExisted' = "no"
            /\ result' = "NotFound"
            /\ pc' = "returned"
    /\ UNCHANGED <<env, agent_path, childVars, handle, elapsed, pollOutcome,
                   pollElapsed, errStatus, setupResult, log, nSpawn, nSleep, nPoll>>

\* Lines 37-42: spawn() succeeds; the PID is printed.
SpawnOk ==
    /\ pc = "spawn"
    /\ nSpawn' = nSpawn + 1
    /\ child' = "running"
    /\ handle' = "held"
    /\ log' = Append(log, LineStartedPid)
    /\ pc' = "sleep"
    /\ UNCHANGED <<env, agent_path, pathExisted, childStatus, childExitPc,
                   childExitElapsed, elapsed, pollOutcome, pollElapsed, result, errStatus, setupResult,
                   nExists, nSleep, nPoll>>

\* Faulty variant: the spawn error is dropped instead of returned.
SpawnErrContinues ==
    /\ pc = "spawn"
    /\ nSpawn' = nSpawn + 1
    /\ pc' = "sleep"
    /\ UNCHANGED <<env, agent_path, pathExisted, childVars, handle, elapsed,
                   pollOutcome, pollElapsed, result, errStatus, setupResult, log,
                   nExists, nSleep, nPoll>>

\* Line 40, the `?` taken: spawn() fails and the error is returned.
SpawnErr ==
    /\ pc = "spawn"
    /\ nSpawn' = nSpawn + 1
    /\ result' = "SpawnError"
    /\ pc' = "returned"
    /\ UNCHANGED <<env, agent_path, pathExisted, childVars, handle, elapsed,
                   pollOutcome, pollElapsed, errStatus, setupResult, log,
                   nExists, nSleep, nPoll>>

\* Line 45: one more second of the sleep passes.
SleepTick ==
    /\ pc = "sleep"
    /\ elapsed < WaitSecs
    /\ elapsed' = elapsed + 1
    /\ UNCHANGED <<env, pc, agent_path, pathExisted, childVars, handle, pollOutcome,
                   pollElapsed, result, errStatus, setupResult, log, counters>>

\* Faulty variant: the sleep returns before its duration has passed.
SleepReturnEarly ==
    /\ pc = "sleep"
    /\ nSleep' = nSleep + 1
    /\ pc' = "poll"
    /\ UNCHANGED <<env, agent_path, pathExisted, childVars, handle, elapsed,
                   pollOutcome, pollElapsed, result, errStatus, setupResult, log,
                   nExists, nSpawn, nPoll>>

\* Line 45: thread::sleep returns once the whole duration has passed.
SleepReturn ==
    /\ pc = "sleep"
    /\ elapsed >= WaitSecs
    /\ nSleep' = nSleep + 1
    /\ pc' = "poll"
    /\ UNCHANGED <<env, agent_path, pathExisted, childVars, handle, elapsed,
                   pollOutcome, pollElapsed, result, errStatus, setupResult, log,
                   nExists, nSpawn, nPoll>>

\* Faulty variant: dropping the handle terminates the process.
DropChildKills ==
    /\ handle' = "dropped"
    /\ child' = IF child = "running" THEN "exited" ELSE child
    /\ childStatus' = IF child = "running" THEN 1 ELSE childStatus
    /\ childExitPc' = IF child = "running" THEN pc ELSE childExitPc
    /\ childExitElapsed' = IF child = "running" THEN elapsed ELSE childExitElapsed

\* Line 61: `child` goes out of scope. Dropping a std::process::Child closes
\* the pipe handles and neither kills nor waits for the process.
DropChild ==
    /\ handle' = "dropped"
    /\ UNCHANGED childVars

\* child.try_wait(): Ok(Some(status)) only for an exited child, Ok(None) only
\* for a running one, Err(e) whenever the OS call fails.
TryWaitOutcomes ==
    {"error"} \cup (IF child = "exited" THEN {"exited"} ELSE {})
              \cup (IF child = "running" THEN {"running"} ELSE {})

\* Faulty variant: an exited child is taken for a started one.
ArmExitedAsSuccess ==
    /\ result' = "Ok"
    /\ pc' = "returned"
    /\ DropChild
    /\ UNCHANGED <<errStatus, log>>

\* Lines 49-51: Ok(Some(status)) returns the "exited early" error.
ArmExited ==
    /\ result' = "ExitedEarly"
    /\ errStatus' = childStatus
    /\ pc' = "returned"
    /\ DropChild
    /\ UNCHANGED log

\* Faulty variant: a running child is polled again.
ArmRunningKeepsPolling ==
    /\ log' = Append(log, LineRunning)
    /\ pc' = "poll"
    /\ UNCHANGED <<result, errStatus, handle, childVars>>

\* Lines 52-54 and 60-61: Ok(None) prints, falls out of the match, returns Ok(()).
ArmRunning ==
    /\ log' = Append(log, LineRunning)
    /\ result' = "Ok"
    /\ pc' = "returned"
    /\ DropChild
    /\ UNCHANGED errStatus

\* Lines 55-57: Err(e) returns the "failed to check" error.
ArmError ==
    /\ result' = "StatusError"
    /\ pc' = "returned"
    /\ DropChild
    /\ UNCHANGED <<errStatus, log>>

\* Lines 48-61: the single try_wait and its match.
TryWait ==
    /\ pc = "poll"
    /\ nPoll' = nPoll + 1
    /\ pollElapsed' = elapsed
    /\ \E o \in TryWaitOutcomes :
          /\ pollOutcome' = o
          /\ \/ o = "exited" /\ ArmExited
             \/ o = "running" /\ ArmRunning
             \/ o = "error" /\ ArmError
    /\ UNCHANGED <<env, agent_path, pathExisted, elapsed, setupResult,
                   nExists, nSpawn, nSleep>>

\* ------------------------------------------------ setup hook, continued

\* Faulty variant: the hook calls start_python_agent again after an error.
MatchErrRetries ==
    /\ pc = "returned"
    /\ IsErr(result)
    /\ log' = Append(Append(log, LineFailed), LineEnsure)
    /\ result' = "none"
    /\ pc' = "start"
    /\ UNCHANGED <<env, agent_path, pathExisted, childVars, handle, elapsed,
                   pollOutcome, pollElapsed, errStatus, setupResult, counters>>

\* Faulty variant: the hook returns the launcher's error.
MatchErrPropagates ==
    /\ pc = "returned"
    /\ IsErr(result)
    /\ log' = Append(Append(log, LineFailed), LineEnsure)
    /\ setupResult' = "Err"
    /\ pc' = "setup_done"
    /\ UNCHANGED <<env, agent_path, pathExisted, childVars, handle, elapsed,
                   pollOutcome, pollElapsed, result, errStatus, counters>>

\* Faulty variant: the Err arm goes on to print the success lines.
MatchErrFallsThrough ==
    /\ pc = "returned"
    /\ IsErr(result)
    /\ log' = log \o <<LineFailed, LineEnsure, LineSuccess, LineAvailable>>
    /\ setupResult' = "Ok"
    /\ pc' = "setup_done"
    /\ UNCHANGED <<env, agent_path, pathExisted, childVars, handle, elapsed,
                   pollOutcome, pollElapsed, result, errStatus, counters>>

\* Lines 75-78 and 81: the Err arm prints to stderr; the closure returns Ok(()).
MatchErr ==
    /\ pc = "returned"
    /\ IsErr(result)
    /\ log' = Append(Append(log, LineFailed), LineEnsure)
    /\ setupResult' = "Ok"
    /\ pc' = "setup_done"
    /\ UNCHANGED <<env, agent_path, pathExisted, childVars, handle, elapsed,
                   pollOutcome, pollElapsed, result, errStatus, counters>>

\* Lines 71-74 and 81: the Ok arm prints; the closure returns Ok(()).
MatchOk ==
    /\ pc = "returned"
    /\ result = "Ok"
    /\ log' = Append(Append(log, LineSuccess), LineAvailable)
    /\ setupResult' = "Ok"
    /\ pc' = "setup_done"
    /\ UNCHANGED <<env, agent_path, pathExisted, childVars, handle, elapsed,
                   pollOutcome, pollElapsed, result, errStatus, counters>>

\* Lines 83-84: the builder runs the application after a successful setup;
\* a setup error makes run() fail and expect() panic.
RunApp ==
    /\ pc = "setup_done"
    /\ pc' = IF setupResult = "Ok" THEN "app_running" ELSE "panicked"
    /\ UNCHANGED <<env, agent_path, pathExisted, childVars, handle, elapsed,
                   pollOutcome, pollElapsed, result, errStatus, setupResult, log,
                   counters>>

\* Line 85: the event loop ends and main returns; nothing is done to the child.
AppExit ==
    /\ pc = "app_running"
    /\ pc' = "app_exited"
    /\ UNCHANGED <<env, agent_path, pathExisted, childVars, handle, elapsed,
                   pollOutcome, pollElapsed, result, errStatus, setupResult, log,
                   counters>>

\* ------------------------------------------------------------------- Next

Next ==
    \/ SetupBegin
    \/ StartBegin
    \/ CurrentExeErr
    \/ ResolvePath
    \/ CheckExists
    \/ SpawnOk
    \/ SpawnErr
    \/ SleepTick
    \/ SleepReturn
    \/ TryWait
    \/ MatchOk
    \/ MatchErr
    \/ RunApp
    \/ AppExit
    \/ ChildExits

Spec == Init /\ [][Next]_vars

TypeOK ==
    /\ debug_assertions \in BOOLEAN
    /\ pc \in {"setup", "start", "current_exe", "exists", "spawn", "sleep", "poll",
               "returned", "setup_done", "app_running", "app_exited", "panicked"}
    /\ pathExisted \in {"unchecked", "yes", "no"}
    /\ child \in {"none", "running", "exited"}
    /\ childStatus \in ExitCodes \cup {NoStatus}
    /\ handle \in {"none", "held", "dropped"}
    /\ elapsed \in 0..WaitSecs
    /\ pollOutcome \in {"none", "exited", "running", "error"}
    /\ result \in Errors \cup {"none", "Ok"}
    /\ errStatus \in ExitCodes \cup {NoStatus}
    /\ setupResult \in {"none", "Ok", "Err"}

Returned == pc \in {"returned", "setup_done", "app_running", "app_exited", "panicked"}
HookDone == pc \in {"setup_done", "app_running", "app_exited", "panicked"}

\* ------------------------------------------------------------ properties

FailureReported == Count(log, LineFailed) = 1 /\ Count(log, LineEnsure) = 1
SuccessReported == Count(log, LineSuccess) = 1 /\ Count(log, LineAvailable) = 1
NoFailureLines == Count(log, LineFailed) = 0 /\ Count(log, LineEnsure) = 0
NoSuccessLines == Count(log, LineSuccess) = 0 /\ Count(log, LineAvailable) = 0

\* C1: when the resolved path does not exist at the existence check, the
\* launcher returns the "not found" error and never attempts a spawn; a spawn
\* is attempted only after the existence check on the resolved path succeeded.
C1_MissingPathNeverSpawns ==
    /\ pathExisted = "no" =>
          /\ agent_path \notin files
          /\ result = "NotFound"
          /\ nSpawn = 0
          /\ child = "none"
    /\ nSpawn > 0 => pathExisted = "yes" /\ agent_path \in files /\ nExists = 1

C1_Witness ==
    /\ pc = "app_exited"
    /\ pathExisted = "no"
    /\ result = "NotFound"
    /\ nSpawn = 0

\* C2: whatever start_python_agent returns, the setup hook logs the outcome and
\* returns Ok: no launcher error leaves the hook, and the application goes on
\* to run.
C2_SetupAlwaysSucceeds ==
    /\ setupResult # "Err"
    /\ pc # "panicked"
    /\ HookDone =>
          /\ setupResult = "Ok"
          /\ result \in Errors \cup {"Ok"}
          /\ IsErr(result) => FailureReported
          /\ result = "Ok" => SuccessReported

C2_Witness ==
    /\ pc = "app_running"
    /\ result = "StatusError"
    /\ setupResult = "Ok"
    /\ FailureReported

ExitedBeforeWaitElapsed ==
    /\ child = "exited"
    /\ childExitPc = "sleep"
    /\ childExitElapsed < WaitSecs

\* C3 as first stated: a child that exits before the wait elapses always makes
\* start_python_agent return the "exited early with status" error.
C3_AlwaysExitStatus ==
    (ExitedBeforeWaitElapsed /\ Returned) =>
        /\ result = "ExitedEarly"
        /\ errStatus = childStatus

\* C3: a child that exits before the wait elapses makes start_python_agent
\* return an error and the hook log a failure, never the success lines; the
\* error is "exited early" with the child's exit status when try_wait
\* succeeds, and "failed to check agent status" when try_wait itself fails.
C3_EarlyExitIsFailure ==
    (ExitedBeforeWaitElapsed /\ Returned) =>
        /\ \/ pollOutcome = "exited" /\ result = "ExitedEarly" /\ errStatus = childStatus
           \/ pollOutcome = "error" /\ result = "StatusError"
        /\ Count(log, LineRunning) = 0
        /\ NoSuccessLines
        /\ HookDone => FailureReported

C3_Witness ==
    /\ ExitedBeforeWaitElapsed
    /\ pc = "app_running"
    /\ result = "ExitedEarly"
    /\ errStatus = childStatus
    /\ FailureReported

\* C4: once the poll has seen the child still running, start_python_agent has
\* returned Ok, the handle is dropped, and the child is never polled or waited
\* on again.
C4_RunningMeansOkAndNoMonitoring ==
    pollOutcome = "running" =>
        /\ Returned
        /\ result = "Ok"
        /\ handle = "dropped"
        /\ nPoll = 1
        /\ nSleep = 1
        /\ Count(log, LineRunning) = 1

C4_Witness ==
    /\ pollOutcome = "running"
    /\ pc = "app_exited"
    /\ child = "running"
    /\ nPoll = 1

DropLast(s, n) == IF Len(s) <= n THEN <<>> ELSE SubSeq(s, 1, Len(s) - n)

\* The derivation as documented: from the executable's directory, three
\* segments up (as many as there are, when fewer) and down agent/dist in a
\* debug build; the directory itself in a release build.
DocumentedPath(e, dbg) ==
    LET dir == DropLast(e, 1)
    IN  IF dbg THEN DropLast(dir, 3) \o DevSuffix ELSE dir \o <<AgentExe>>

\* C5: for every executable location and both build modes the resolved path
\* is the documented one.
C5_ResolvedPathAsDocumented ==
    pc \notin {"setup", "start", "current_exe"} /\ result # "ExeError" =>
        agent_path = DocumentedPath(exe, debug_assertions)

C5_Witness ==
    /\ pc = "exists"
    /\ debug_assertions
    /\ Len(exe) = 5
    /\ agent_path = <<exe[1]>> \o DevSuffix

\* C6: after a successful spawn the child is polled exactly once, after the
\* whole 2-second wait, without blocking; an exited child gives the "exited
\* early" error with its status, a running child gives Ok, a failed status
\* check gives the "failed to check" error.
C6_SinglePollAfterWait ==
    /\ nPoll <= 1
    /\ nPoll = 1 <=> pollOutcome # "none"
    /\ nPoll = 1 =>
          /\ child # "none"
          /\ nSleep = 1
          /\ pollElapsed >= WaitSecs
    /\ (Returned /\ child # "none") => nPoll = 1
    /\ pollOutcome = "exited" =>
          child = "exited" /\ result = "ExitedEarly" /\ errStatus = childStatus
    /\ pollOutcome = "running" => result = "Ok"
    /\ pollOutcome = "error" => result = "StatusError"

C6_Witness ==
    /\ pollOutcome = "exited"
    /\ childExitPc = "poll"
    /\ pollElapsed = WaitSecs
    /\ result = "ExitedEarly"
    /\ pc = "returned"

\* C7: no retry: each of the existence check, the spawn, the wait and the poll
\* happens at most once per startup, and once start_python_agent has failed
\* its error stands and none of them happens again.
C7_NoRetry ==
    /\ [](nExists <= 1 /\ nSpawn <= 1 /\ nSleep <= 1 /\ nPoll <= 1)
    /\ [][IsErr(result) => UNCHANGED <<result, counters, elapsed, handle>>]_vars

C7_Witness ==
    /\ pc = "app_exited"
    /\ result = "SpawnError"
    /\ nExists = 1
    /\ nSpawn = 1

\* C8: the launcher never ends the child: whenever a running child stops
\* running, the step is the child's own exit and the main thread did nothing
\* in it; this covers the drop of the handle at the return of
\* start_python_agent and the exit of the parent.
C8_OnlyChildEndsChild ==
    [][(child = "running" /\ child' # "running") =>
          /\ child' = "exited"
          /\ UNCHANGED <<pc, handle, result, pollOutcome, log, counters>>]_vars

C8_Witness ==
    /\ pc = "app_exited"
    /\ handle = "dropped"
    /\ pollOutcome = "error"
    /\ child = "running"

\* C9: when the path exists but spawn fails, start_python_agent returns the
\* error at once: no PID line, no wait, no poll; the hook logs it as a failure
\* and still returns Ok. The wait and the poll happen only after a spawn that
\* succeeded.
C9_SpawnFailureSkipsWaitAndPoll ==
    /\ (nSpawn = 1 /\ child = "none") => result = "SpawnError"
    /\ result = "SpawnError" =>
          /\ pathExisted = "yes"
          /\ Count(log, LineStartedPid) = 0
          /\ nSleep = 0 /\ nPoll = 0 /\ elapsed = 0
          /\ Returned
          /\ HookDone => FailureReported /\ NoSuccessLines /\ setupResult = "Ok"
    /\ (pc \in {"sleep", "poll"} \/ nSleep > 0 \/ nPoll > 0 \/ elapsed > 0) =>
          child # "none" /\ Count(log, LineStartedPid) = 1

C9_Witness ==
    /\ pc = "setup_done"
    /\ result = "SpawnError"
    /\ pathExisted = "yes"
    /\ FailureReported

\* C10: when the hook is done it has logged exactly one final report, the
\* success lines or the failure lines, and the success lines exactly when the
\* path existed, the spawn succeeded and the one poll saw the child running;
\* before that it has logged neither.
C10_ExactlyOneFinalReport ==
    /\ ~HookDone => NoSuccessLines /\ NoFailureLines
    /\ HookDone =>
          /\ \/ SuccessReported /\ NoFailureLines /\ log[Len(log)] = LineAvailable
             \/ FailureReported /\ NoSuccessLines /\ log[Len(log)] = LineEnsure
          /\ SuccessReported <=>
                /\ pathExisted = "yes"
                /\ nSpawn = 1 /\ child # "none"
                /\ nPoll = 1 /\ pollOutcome = "running"

C10_Witness ==
    /\ pc = "setup_done"
    /\ SuccessReported
    /\ NoFailureLines
    /\ child = "exited"

====
